---- MODULE Spec2Model ----
(***************************************************************************)
(* Model of the "Special AVL" tree (a02_V5.cpp) and of the flat binary     *)
(* search (BinarySearch.cpp).                                              *)
(*                                                                         *)
(* The tree keeps a sorted vector of keys and, on every insert and remove, *)
(* builds a new node graph with buildBalancedTree.  Nodes live in a heap:  *)
(* `heap` is the sequence of every AVLNode allocated with new and not      *)
(* deleted; the address of a node is its index in the sequence and NULL    *)
(* is 0.  Indices into vectors are the 0-based indices of the C++ code;    *)
(* element i of a vector v is v[i + 1] in the model (see At).              *)
(***************************************************************************)
EXTENDS Integers, Sequences, FiniteSets

VARIABLES
    sortedElements,  \* AVLTree::sortedElements
    root,            \* AVLTree::root
    heap,            \* every AVLNode allocated and not deleted
    hist,            \* the mutations made so far, each with the state before it
    result,          \* the outcome of the last search()/getSearchPath() call
    arr,             \* binarySearch: the vector searched
    target,          \* binarySearch: the value looked for
    low, high,       \* binarySearch: the current bounds
    path,            \* binarySearch: the indices probed so far
    ret,             \* binarySearch: the value returned
    pc               \* binarySearch: "idle", "loop" or "done"

vars == <<sortedElements, root, heap, hist, result,
          arr, target, low, high, path, ret, pc>>
treeVars == <<sortedElements, root, heap, hist, result>>
flatVars == <<arr, target, low, high, path, ret, pc>>

\* Bounds of the model.
MaxKey == 3        \* keys inserted, removed and searched are 1..MaxKey
MaxOps == 4        \* mutations (insert/remove) in one run of the tree
MaxBuildKey == 6   \* keys of the sorted lists handed to the builder
MaxLen == 4        \* length of the vectors handed to binarySearch
MaxVal == 3        \* the vectors' elements are 1..MaxVal

NULL == 0
NotFound == 0 - 1
\* ret before binarySearch has returned: no index and not -1
NoReturn == 0 - 2
NoResult == [op |-> "none"]

Keys == 1..MaxKey

\* v[i] of the C++ code, i counted from 0
At(v, i) == v[i + 1]

Max(a, b) == IF a >= b THEN a ELSE b

(***************************************************************************)
(* The tree                                                                *)
(***************************************************************************)

\* new AVLNode<T>(k)
AVLNode(k) == [key |-> k, left |-> NULL, right |-> NULL, height |-> 1]

\* AVLTree::height
height(h, node) == IF node = NULL THEN 0 ELSE h[node].height

\* a buggy midpoint: the last index of the range
BuildMidLast(start, end) == end

\* the index buildBalancedTree picks as the root of [start, end]
BuildMid(start, end) == (start + end + 1) \div 2

\* a buggy node height: counts the right subtree only
NodeHeightRight(lh, rh) == 1 + rh

\* the height buildBalancedTree stores in a node
NodeHeight(lh, rh) == 1 + Max(lh, rh)

\* AVLTree::buildBalancedTree over the vector elems, allocating in heap h;
\* the result is the heap after the call and the address returned.
RECURSIVE buildBalancedTree(_, _, _, _)
buildBalancedTree(h, elems, start, end) ==
    IF start > end
    THEN [heap |-> h, node |-> NULL]
    ELSE LET mid  == BuildMid(start, end)
             h1   == Append(h, AVLNode(At(elems, mid)))
             node == Len(h1)
             L    == buildBalancedTree(h1, elems, start, mid - 1)
             R    == buildBalancedTree(L.heap, elems, mid + 1, end)
             lh   == height(R.heap, L.node)
             rh   == height(R.heap, R.node)
         IN  [heap |-> [R.heap EXCEPT ![node] =
                            [key    |-> At(elems, mid),
                             left   |-> L.node,
                             right  |-> R.node,
                             height |-> NodeHeight(lh, rh)]],
              node |-> node]

\* std::lower_bound(v.begin(), v.end(), key): the first index whose element
\* is not less than key, v.size() when there is none
lower_bound(v, key) ==
    LET ge == {i \in 0..(Len(v) - 1) : ~(At(v, i) < key)}
    IN  IF ge = {} THEN Len(v)
        ELSE CHOOSE i \in ge : \A j \in ge : i <= j

\* vector::insert(it, key)
VecInsert(v, it, key) ==
    [i \in 1..(Len(v) + 1) |->
        IF i <= it THEN v[i] ELSE IF i = it + 1 THEN key ELSE v[i - 1]]

\* vector::erase(it)
VecErase(v, it) ==
    [i \in 1..(Len(v) - 1) |-> IF i <= it THEN v[i] ELSE v[i + 1]]

\* a buggy insert: no test for a duplicate
InsertedAlways(v, key) == VecInsert(v, lower_bound(v, key), key)

\* sortedElements after the first three lines of insertRebuild
Inserted(v, key) ==
    LET it == lower_bound(v, key)
    IN  IF it = Len(v) \/ At(v, it) # key
        THEN VecInsert(v, it, key)
        ELSE v

\* a buggy erase: no test that the element found is the key
ErasedAtLowerBound(v, key) ==
    LET it == lower_bound(v, key)
    IN  IF it # Len(v) THEN VecErase(v, it) ELSE v

\* a buggy erase: the test of the element found is inverted
ErasedUnlessKey(v, key) ==
    LET it == lower_bound(v, key)
    IN  IF it # Len(v) /\ At(v, it) # key THEN VecErase(v, it) ELSE v

\* sortedElements after the first three lines of deleteRebuild
Erased(v, key) ==
    LET it == lower_bound(v, key)
    IN  IF it # Len(v) /\ At(v, it) = key
        THEN VecErase(v, it)
        ELSE v

\* AVLTree::insertRebuild: the vector, the heap and the address returned
insertRebuild(h, v, key) ==
    LET v1 == Inserted(v, key)
        b  == buildBalancedTree(h, v1, 0, Len(v1) - 1)
    IN  [sortedElements |-> v1, heap |-> b.heap, node |-> b.node]

\* AVLTree::deleteRebuild
deleteRebuild(h, v, key) ==
    LET v1 == Erased(v, key)
        b  == buildBalancedTree(h, v1, 0, Len(v1) - 1)
    IN  IF v1 = <<>>
        THEN [sortedElements |-> v1, heap |-> h, node |-> NULL]
        ELSE [sortedElements |-> v1, heap |-> b.heap, node |-> b.node]

\* a buggy descent: goes right for a smaller key
RECURSIVE searchBSTWrongSide(_, _, _)
searchBSTWrongSide(h, node, key) ==
    IF node = NULL THEN FALSE
    ELSE IF h[node].key = key THEN TRUE
    ELSE IF key < h[node].key THEN searchBSTWrongSide(h, h[node].right, key)
    ELSE searchBSTWrongSide(h, h[node].left, key)

\* AVLTree::searchBST
RECURSIVE searchBST(_, _, _)
searchBST(h, node, key) ==
    IF node = NULL THEN FALSE
    ELSE IF h[node].key = key THEN TRUE
    ELSE IF key < h[node].key THEN searchBST(h, h[node].left, key)
    ELSE searchBST(h, h[node].right, key)

\* the loop of AVLTree::getSearchPath from the node current, with the path
\* recorded so far
RECURSIVE searchPathFrom(_, _, _, _)
searchPathFrom(h, current, key, p) ==
    IF current = NULL THEN p
    ELSE LET p1 == Append(p, current)
         IN  IF h[current].key = key THEN p1
             ELSE IF key < h[current].key
                  THEN searchPathFrom(h, h[current].left, key, p1)
                  ELSE searchPathFrom(h, h[current].right, key, p1)

\* AVLTree::getSearchPath
getSearchPath(h, r, key) == searchPathFrom(h, r, key, <<>>)

\* AVLTree::inorder: the keys in the order printed
RECURSIVE inorder(_, _)
inorder(h, node) ==
    IF node = NULL THEN <<>>
    ELSE inorder(h, h[node].left) \o <<h[node].key>> \o inorder(h, h[node].right)

\* the keys and the shape of the tree under node, without its addresses
RECURSIVE Shape(_, _)
Shape(h, node) ==
    IF node = NULL THEN <<>>
    ELSE <<Shape(h, h[node].left), h[node].key, Shape(h, h[node].right)>>

\* the addresses reachable from node through left and right
RECURSIVE Reachable(_, _)
Reachable(h, node) ==
    IF node = NULL THEN {}
    ELSE {node} \cup Reachable(h, h[node].left) \cup Reachable(h, h[node].right)

\* the state a mutation starts from, kept with the call
Call(op, key) ==
    [op |-> op, key |-> key,
     before |-> sortedElements, shapeBefore |-> Shape(heap, root)]

\* AVLTree::AVLTree
TreeInit ==
    /\ sortedElements = <<>>
    /\ root = NULL
    /\ heap = <<>>
    /\ hist = <<>>
    /\ result = NoResult

FlatIdle ==
    /\ arr = <<>>
    /\ target = 0
    /\ low = 0
    /\ high = NotFound
    /\ path = <<>>
    /\ ret = NoReturn
    /\ pc = "idle"

Init == TreeInit /\ FlatIdle

\* AVLTree::insert
Insert(key) ==
    /\ Len(hist) < MaxOps
    /\ LET r == insertRebuild(heap, sortedElements, key)
       IN  /\ sortedElements' = r.sortedElements
           /\ heap' = r.heap
           /\ root' = r.node
    /\ hist' = Append(hist, Call("insert", key))
    /\ result' = NoResult
    /\ UNCHANGED flatVars

\* AVLTree::remove
Remove(key) ==
    /\ Len(hist) < MaxOps
    /\ LET r == deleteRebuild(heap, sortedElements, key)
       IN  /\ sortedElements' = r.sortedElements
           /\ heap' = r.heap
           /\ root' = r.node
    /\ hist' = Append(hist, Call("remove", key))
    /\ result' = NoResult
    /\ UNCHANGED flatVars

\* AVLTree::search
Search(key) ==
    /\ result' = [op |-> "search", key |-> key,
                  found |-> searchBST(heap, root, key)]
    /\ UNCHANGED <<sortedElements, root, heap, hist>>
    /\ UNCHANGED flatVars

\* AVLTree::getSearchPath, and found as main derives it from the path
GetSearchPath(key) ==
    /\ LET p == getSearchPath(heap, root, key)
       IN  result' = [op |-> "getSearchPath", key |-> key, path |-> p,
                      found |-> (p # <<>> /\ heap[p[Len(p)]].key = key)]
    /\ UNCHANGED <<sortedElements, root, heap, hist>>
    /\ UNCHANGED flatVars

Next ==
    \/ \E key \in Keys : Insert(key)
    \/ \E key \in Keys : Remove(key)
    \/ \E key \in Keys : Search(key)
    \/ \E key \in Keys : GetSearchPath(key)

Spec == Init /\ [][Next]_vars

(***************************************************************************)
(* The flat binary search                                                  *)
(***************************************************************************)

\* a buggy probe: the lower middle
BSMidLower(lo, hi) == (lo + hi) \div 2

\* the index binarySearch probes between lo and hi
BSMid(lo, hi) == (lo + hi + 1) \div 2

\* a buggy loop body: moves left when the probed element is smaller
LoopBodySwapped(a, t, st) ==
    LET mid == BSMid(st.low, st.high)
        p1  == Append(st.path, mid)
    IN  IF At(a, mid) = t
        THEN [st EXCEPT !.path = p1, !.ret = mid, !.pc = "done"]
        ELSE IF At(a, mid) < t
        THEN [st EXCEPT !.path = p1, !.high = mid - 1]
        ELSE [st EXCEPT !.path = p1, !.low = mid + 1]

\* one iteration of the while loop of binarySearch, entered with low <= high
LoopBody(a, t, st) ==
    LET mid == BSMid(st.low, st.high)
        p1  == Append(st.path, mid)
    IN  IF At(a, mid) = t
        THEN [st EXCEPT !.path = p1, !.ret = mid, !.pc = "done"]
        ELSE IF At(a, mid) < t
        THEN [st EXCEPT !.path = p1, !.low = mid + 1]
        ELSE [st EXCEPT !.path = p1, !.high = mid - 1]

\* the return after the loop
LoopExit(st) == [st EXCEPT !.ret = NotFound, !.pc = "done"]

\* binarySearch on entry to the loop
Entry(a) ==
    [low |-> 0, high |-> Len(a) - 1, path |-> <<>>, ret |-> NoReturn,
     pc |-> "loop"]

\* binarySearch from the state st to its return
RECURSIVE RunLoop(_, _, _)
RunLoop(a, t, st) ==
    IF st.pc = "done" THEN st
    ELSE IF st.low <= st.high THEN RunLoop(a, t, LoopBody(a, t, st))
    ELSE LoopExit(st)

\* binarySearch(arr, target): the value returned and the indices probed
binarySearch(a, t) == RunLoop(a, t, Entry(a))

\* the ascending vectors binarySearch is given
SortedArrays ==
    {a \in UNION {[1..n -> 1..MaxVal] : n \in 0..MaxLen} :
        \A i \in 1..Len(a) : \A j \in 1..Len(a) : i < j => a[i] <= a[j]}

Flat == [low |-> low, high |-> high, path |-> path, ret |-> ret, pc |-> pc]

SetFlat(st) ==
    /\ low' = st.low
    /\ high' = st.high
    /\ path' = st.path
    /\ ret' = st.ret
    /\ pc' = st.pc

\* a call binarySearch(arr, target), at the head of its loop
InitBS ==
    /\ TreeInit
    /\ arr \in SortedArrays
    /\ target \in 0..(MaxVal + 1)
    /\ low = Entry(arr).low
    /\ high = Entry(arr).high
    /\ path = Entry(arr).path
    /\ ret = Entry(arr).ret
    /\ pc = Entry(arr).pc

\* one pass through the loop
BSIterate ==
    /\ pc = "loop"
    /\ low <= high
    /\ SetFlat(LoopBody(arr, target, Flat))
    /\ UNCHANGED <<arr, target>>
    /\ UNCHANGED treeVars

\* the loop condition fails: return -1
BSReturnNotFound ==
    /\ pc = "loop"
    /\ ~(low <= high)
    /\ SetFlat(LoopExit(Flat))
    /\ UNCHANGED <<arr, target>>
    /\ UNCHANGED treeVars

NextBS ==
    \/ BSIterate
    \/ BSReturnNotFound

\* the call runs on its own thread of control and is never suspended
SpecBS == InitBS /\ [][NextBS]_vars /\ WF_vars(NextBS)

(***************************************************************************)
(* The builder on its own: a sorted vector is given, the tree is built     *)
(* from it, and a key is looked up in the tree and in the vector.          *)
(***************************************************************************)

BuildKeys == 1..MaxBuildKey

\* the elements of the set S in ascending order
RECURSIVE SortedSeq(_)
SortedSeq(S) ==
    IF S = {} THEN <<>>
    ELSE LET m == CHOOSE x \in S : \A y \in S : x <= y
         IN  <<m>> \o SortedSeq(S \ {m})

InitBuild ==
    /\ sortedElements \in {SortedSeq(S) : S \in SUBSET BuildKeys}
    /\ root = NULL
    /\ heap = <<>>
    /\ hist = <<>>
    /\ result = NoResult
    /\ FlatIdle

\* root = buildBalancedTree(0, size - 1), the last line of insertRebuild
Build ==
    /\ hist = <<>>
    /\ LET b == buildBalancedTree(heap, sortedElements, 0, Len(sortedElements) - 1)
       IN  /\ heap' = b.heap
           /\ root' = b.node
    /\ hist' = <<Call("build", 0)>>
    /\ UNCHANGED <<sortedElements, result>>
    /\ UNCHANGED flatVars

\* the key t is looked up with getSearchPath in the tree and with
\* binarySearch in the vector the tree was built from
Probe(t) ==
    /\ hist # <<>>
    /\ LET p == getSearchPath(heap, root, t)
       IN  result' = [op |-> "getSearchPath", key |-> t, path |-> p,
                      found |-> (p # <<>> /\ heap[p[Len(p)]].key = t)]
    /\ arr' = sortedElements
    /\ target' = t
    /\ SetFlat(binarySearch(sortedElements, t))
    /\ UNCHANGED <<sortedElements, root, heap, hist>>

NextBuild ==
    \/ Build
    \/ \E t \in 0..(MaxBuildKey + 1) : Probe(t)

SpecBuild == InitBuild /\ [][NextBuild]_vars

(***************************************************************************)
(* Properties                                                              *)
(***************************************************************************)

Range(v) == {v[i] : i \in 1..Len(v)}

Last(v) == v[Len(v)]

StrictlyAscending(v) == \A i \in 1..(Len(v) - 1) : v[i] < v[i + 1]

\* the number of nodes on the longest path from node down to a leaf
RECURSIVE TrueHeight(_, _)
TrueHeight(h, node) ==
    IF node = NULL THEN 0
    ELSE 1 + Max(TrueHeight(h, h[node].left), TrueHeight(h, h[node].right))

KeysUnder(h, node) == {h[n].key : n \in Reachable(h, node)}

\* the least e with 2^e >= m, for m >= 1
CeilLog2(m) == CHOOSE e \in 0..m : 2^e >= m /\ \A d \in 0..(e - 1) : 2^d < m

\* the keys held by the nodes of a search path
PathKeys(h, p) == [i \in 1..Len(p) |-> h[p[i]].key]

\* C1: after any sequence of insert and remove calls from the empty tree,
\* the in-order traversal from root equals sortedElements, sortedElements is
\* strictly ascending, and root is absent exactly when sortedElements is
\* empty.
C1_InorderIsSortedElements ==
    /\ inorder(heap, root) = sortedElements
    /\ StrictlyAscending(sortedElements)
    /\ (root = NULL) <=> (sortedElements = <<>>)

\* a tree of two keys left by the removal of a third
C1_Witness ==
    /\ Len(sortedElements) >= 2
    /\ \E i \in 1..Len(hist) :
          hist[i].op = "remove" /\ hist[i].key \in Range(hist[i].before)

\* C2: after any sequence of insert and remove calls, at every node the
\* heights of the two subtrees differ by at most 1, the keys of the left
\* subtree are smaller than the node's key and those of the right larger.
C2_BalancedBST ==
    \A n \in Reachable(heap, root) :
        LET lh == TrueHeight(heap, heap[n].left)
            rh == TrueHeight(heap, heap[n].right)
        IN  /\ lh - rh \in {0 - 1, 0, 1}
            /\ \A k \in KeysUnder(heap, heap[n].left) : k < heap[n].key
            /\ \A k \in KeysUnder(heap, heap[n].right) : k > heap[n].key

\* a tree whose root has two children, in a run that also called remove
C2_Witness ==
    /\ root # NULL
    /\ heap[root].left # NULL
    /\ heap[root].right # NULL
    /\ \E i \in 1..Len(hist) : hist[i].op = "remove"

\* C3: search(k) is true exactly when k is in sortedElements; for k present
\* getSearchPath(k) is non-empty and ends at the node holding k; for k
\* absent it is empty (empty tree) or ends at a node holding another key.
C3_SearchCorrect ==
    /\ result.op = "search" =>
          (result.found <=> result.key \in Range(sortedElements))
    /\ result.op = "getSearchPath" =>
          IF result.key \in Range(sortedElements)
          THEN /\ result.path # <<>>
               /\ heap[Last(result.path)].key = result.key
          ELSE \/ result.path = <<>> /\ root = NULL
               \/ /\ result.path # <<>>
                  /\ heap[Last(result.path)].key # result.key

\* search finds a key that is not at the root
C3_Witness ==
    /\ result.op = "search"
    /\ result.found
    /\ heap[root].key # result.key

\* C4 as stated: insert(k) followed by remove(k) restores the prior
\* sortedElements and the prior tree (keys and shape), for any key k.
C4_InsertRemoveRestores_AnyKey ==
    \A i \in 1..(Len(hist) - 1) :
        (/\ i + 1 = Len(hist)
         /\ hist[i].op = "insert"
         /\ hist[i + 1].op = "remove"
         /\ hist[i].key = hist[i + 1].key)
        => /\ sortedElements = hist[i].before
           /\ Shape(heap, root) = hist[i].shapeBefore

\* C4, amended: insert(k) followed by remove(k) restores the prior
\* sortedElements and the prior tree (keys and shape) when k was not in
\* sortedElements before the insert.
C4_InsertRemoveRestores ==
    \A i \in 1..(Len(hist) - 1) :
        (/\ i + 1 = Len(hist)
         /\ hist[i].op = "insert"
         /\ hist[i + 1].op = "remove"
         /\ hist[i].key = hist[i + 1].key
         /\ hist[i].key \notin Range(hist[i].before))
        => /\ sortedElements = hist[i].before
           /\ Shape(heap, root) = hist[i].shapeBefore

\* a new key was inserted into a tree of two keys and removed again
C4_Witness ==
    /\ Len(hist) >= 2
    /\ hist[Len(hist) - 1].op = "insert"
    /\ Last(hist).op = "remove"
    /\ hist[Len(hist) - 1].key = Last(hist).key
    /\ Last(hist).key \notin Range(hist[Len(hist) - 1].before)
    /\ Len(hist[Len(hist) - 1].before) >= 2

\* C5: the tree built from a sorted list of n unique keys has height
\* ceil(log2(n+1)); the height stored in every node is 1 + max of its
\* children's heights and is the true height of its subtree; no search path
\* is longer than ceil(log2(n+1)) nodes.
C5_BuildHeight ==
    hist # <<>> =>
        /\ height(heap, root) = CeilLog2(Len(sortedElements) + 1)
        /\ TrueHeight(heap, root) = CeilLog2(Len(sortedElements) + 1)
        /\ \A n \in Reachable(heap, root) :
              /\ heap[n].height = 1 + Max(height(heap, heap[n].left),
                                          height(heap, heap[n].right))
              /\ heap[n].height = TrueHeight(heap, n)
        /\ result.op = "getSearchPath" =>
              Len(result.path) <= CeilLog2(Len(sortedElements) + 1)

\* a tree of five keys or more whose longest search path is walked
C5_Witness ==
    /\ hist # <<>>
    /\ Len(sortedElements) >= 5
    /\ result.op = "getSearchPath"
    /\ Len(result.path) = CeilLog2(Len(sortedElements) + 1)

\* what binarySearch returns, once it has returned
BSResultCorrect ==
    pc = "done" =>
        IF \E i \in 0..(Len(arr) - 1) : At(arr, i) = target
        THEN /\ ret \in 0..(Len(arr) - 1)
             /\ At(arr, ret) = target
             /\ path # <<>>
             /\ Last(path) = ret
        ELSE ret = NotFound

\* a step that probes: the index appended to path, against the bounds the
\* step started from
BSProbeInBounds ==
    path' # path =>
        /\ Len(path') = Len(path) + 1
        /\ Last(path') = (low + high + 1) \div 2
        /\ low <= Last(path')
        /\ Last(path') <= high

\* C6: binarySearch on an ascending vector terminates; it returns an index
\* holding the target when the target occurs and -1 when it does not; every
\* probed index is (low + high + 1) / 2 of the current bounds and lies in
\* [low, high]; on success the last probed index is the one returned.
C6_BinarySearchCorrect ==
    /\ []BSResultCorrect
    /\ [][BSProbeInBounds]_vars
    /\ <>(pc = "done")

\* a successful search that needed three probes
C6_Witness ==
    /\ pc = "done"
    /\ hist = <<>>
    /\ ret # NotFound
    /\ Len(path) >= 3

\* C7: for a sorted list S of unique keys and any target, the elements
\* probed by binarySearch over S are, in order and in number, the keys of
\* the nodes getSearchPath returns on the tree built from S.
C7_ProbesEqualPath ==
    (hist # <<>> /\ result.op = "getSearchPath") =>
        /\ arr = sortedElements
        /\ [i \in 1..Len(path) |-> At(arr, path[i])]
               = PathKeys(heap, result.path)

\* an absent target, given up after three probes
C7_Witness ==
    /\ hist # <<>>
    /\ result.op = "getSearchPath"
    /\ pc = "done"
    /\ ret = NotFound
    /\ Len(path) >= 3

\* C8: insert(k) followed by a second insert(k) gives the sortedElements and
\* the tree (keys and shape) of the single insert(k); inserting a key that
\* is present leaves sortedElements unchanged.
C8_InsertIdempotent ==
    /\ \A i \in 1..(Len(hist) - 1) :
          (/\ i + 1 = Len(hist)
           /\ hist[i].op = "insert"
           /\ hist[i + 1].op = "insert"
           /\ hist[i].key = hist[i + 1].key)
          => /\ sortedElements = hist[i + 1].before
             /\ Shape(heap, root) = hist[i + 1].shapeBefore
    /\ (/\ hist # <<>>
        /\ Last(hist).op = "insert"
        /\ Last(hist).key \in Range(Last(hist).before))
       => /\ sortedElements = Last(hist).before
          /\ Shape(heap, root) = Last(hist).shapeBefore

\* a new key inserted twice in a row into a tree that is not empty
C8_Witness ==
    /\ Len(hist) >= 3
    /\ hist[Len(hist) - 1].op = "insert"
    /\ Last(hist).op = "insert"
    /\ hist[Len(hist) - 1].key = Last(hist).key
    /\ Last(hist).key \notin Range(hist[Len(hist) - 1].before)
    /\ hist[Len(hist) - 1].before # <<>>

\* C9: remove(k) of a key that is not in sortedElements leaves
\* sortedElements and the tree's keys and shape unchanged (on an empty tree
\* root stays absent); remove(k) of the only key leaves no root.
C9_RemoveAbsentNoOp ==
    (hist # <<>> /\ Last(hist).op = "remove") =>
        /\ Last(hist).key \notin Range(Last(hist).before) =>
              /\ sortedElements = Last(hist).before
              /\ Shape(heap, root) = Last(hist).shapeBefore
              /\ Last(hist).before = <<>> => root = NULL
        /\ Last(hist).before = <<Last(hist).key>> =>
              /\ sortedElements = <<>>
              /\ root = NULL

\* a key smaller than one that is present is removed without being there
C9_Witness ==
    /\ hist # <<>>
    /\ Last(hist).op = "remove"
    /\ Last(hist).key \notin Range(Last(hist).before)
    /\ \E k \in Range(Last(hist).before) : Last(hist).key < k

\* C10: after each mutation the nodes allocated and not deleted are exactly
\* the nodes reachable from root; no node of an earlier tree stays allocated.
C10_NoNodeOutlivesItsTree ==
    hist # <<>> => (1..Len(heap)) = Reachable(heap, root)

====
